---- MODULE Spec2Model ----
(***************************************************************************)
(* Model of quizLit.py (Quiz TGE APP 2025): the question selector          *)
(* (QuestionManager.prepare_questions) and the session handlers            *)
(* (start_quiz, answer_question, next_question, reset_quiz) acting on      *)
(* st.session_state.                                                       *)
(***************************************************************************)
EXTENDS Integers, Sequences, FiniteSets, TLC

VARIABLES
    specific_db,          \* questoesEspecificas.db: [exists, rows]
    general_db,           \* questoesGerais.db: [exists, rows]
    quiz_started,         \* st.session_state.quiz_started
    questions,            \* st.session_state.questions
    current_question,     \* st.session_state.current_question
    correct_answers,      \* st.session_state.correct_answers
    user_answers,         \* st.session_state.user_answers
    quiz_finished,        \* st.session_state.quiz_finished
    question_answered,    \* st.session_state.question_answered
    last_user_answer,     \* st.session_state.last_user_answer
    last_answer_correct,  \* st.session_state.last_answer_correct
    st_errors,            \* the st.error messages of the last handler run
    exception,            \* the exception the last handler run raised, or "None"
    results,              \* what the last run evaluated for the final screen, or "None"
    op                    \* the last handler run: its name, argument and the phase it ran in

dbs == <<specific_db, general_db>>

session == <<quiz_started, questions, current_question, correct_answers,
             user_answers, quiz_finished, question_answered,
             last_user_answer, last_answer_correct>>

vars == <<specific_db, general_db, quiz_started, questions, current_question,
          correct_answers, user_answers, quiz_finished, question_answered,
          last_user_answer, last_answer_correct, st_errors, exception,
          results, op>>

----------------------------------------------------------------------------
\* Bounds of the model.

\* Session specification: at most MaxPool rows in the two datasets together.
MaxPool == 2

\* Selector specification: each dataset has any number of rows up to
\* SelMaxPool, or an even number of rows up to 2 * SelMaxPool.
SelMaxPool == 6

\* random.shuffle may return any permutation; the model draws from the
\* rotations by fewer than MaxShift places, each optionally reversed.
MaxShift == 2

\* next_question has no upper limit on current_question; the model stops
\* incrementing at MaxPosition.
MaxPosition == 5

\* evaluate_performance is applied to every total up to MaxTotal.
MaxTotal == 50

\* The datasets of the screen-driven session hold at most UIMaxPool rows.
UIMaxPool == 3

----------------------------------------------------------------------------
\* Program constants.

\* Config.SPECIFIC_QUESTIONS_RATIO = 0.6, as the fraction RatioNum / RatioDen.
RatioNum == 6
RatioDen == 10

\* Config.EXCELLENT_THRESHOLD and Config.GOOD_THRESHOLD.
EXCELLENT_THRESHOLD == 70
GOOD_THRESHOLD == 50

\* The significand of a Python float (IEEE 754 binary64) has 53 bits.
MantissaBits == 53

\* The significand is held in limbs of LimbBits bits, small enough for
\* 32-bit integer arithmetic.
LimbBits == 18

\* The options of the selectbox on the initial screen.
QuizSizes == {10, 20, 30, 40, 50}

\* The keys of Question.get_alternatives().
Letters == {"a", "b", "c", "d"}

LetterSeq == <<"a", "b", "c", "d">>

None == "None"

----------------------------------------------------------------------------
\* Helpers.

Min(a, b) == IF a < b THEN a ELSE b

\* Python's s[:k] for k >= 0.
Take(s, k) == SubSeq(s, 1, Min(k, Len(s)))

Reverse(s) == [i \in 1..Len(s) |-> s[Len(s) + 1 - i]]

Rotate(s, r) == [i \in 1..Len(s) |-> s[((i - 1 + r) % Len(s)) + 1]]

\* The outcomes of random.shuffle the model draws from.
ShuffleChoices == [shift : 0..(MaxShift - 1), reversed : BOOLEAN]

\* random.shuffle(s) with outcome c.
Shuffle(s, c) ==
    IF s = <<>> THEN s
    ELSE IF c.reversed THEN Reverse(Rotate(s, c.shift % Len(s)))
         ELSE Rotate(s, c.shift % Len(s))

----------------------------------------------------------------------------
\* Datasets.

\* A row of the table questoes as a Question: its id, its gabarito, and the
\* dataset (banco) it was loaded from.
Key(banco, i) ==
    IF banco = "specific" THEN LetterSeq[((i - 1) % 4) + 1]
    ELSE LetterSeq[((i + 1) % 4) + 1]

Rows(banco, first, n) ==
    [i \in 1..n |-> [id |-> first + i - 1,
                     gabarito |-> Key(banco, first + i - 1),
                     banco |-> banco]]

\* A dataset file: absent, or present with n rows whose ids start at first.
Datasets(banco, first, n) ==
    IF n = 0 THEN {[exists |-> FALSE, rows |-> <<>>], [exists |-> TRUE, rows |-> <<>>]}
    ELSE {[exists |-> TRUE, rows |-> Rows(banco, first, n)]}

\* DatabaseManager.load_questions, and whether it reports an error.
LoadQuestions(db) == IF ~db.exists THEN <<>> ELSE db.rows

LoadErrors(db) == IF ~db.exists THEN {"Banco de dados nao encontrado"} ELSE {}

----------------------------------------------------------------------------
\* QuestionManager.prepare_questions.

\* Mutant of NumSpecific: the ratio of the general pool taken for the specific.
NumSpecificGeneralShare(total_questions) ==
    (total_questions * (RatioDen - RatioNum)) \div RatioDen

\* int(total_questions * Config.SPECIFIC_QUESTIONS_RATIO); the float product
\* is exact for every size in QuizSizes.
NumSpecific(total_questions) == (total_questions * RatioNum) \div RatioDen

\* Mutant of SelectQuestions: the fallback is never taken.
SelectQuestionsNoFallback(total_questions, c) ==
    LET specific_questions == LoadQuestions(specific_db)
        general_questions == LoadQuestions(general_db)
        from_specific == Take(Shuffle(specific_questions, c[1]),
                              NumSpecific(total_questions))
        num_general == total_questions - Len(from_specific)
    IN  IF general_questions # <<>> /\ num_general > 0
        THEN from_specific \o Take(Shuffle(general_questions, c[2]), num_general)
        ELSE from_specific

\* Mutant of SelectQuestions: the fallback extends the partial selection with
\* its new draw instead of replacing it.
SelectQuestionsExtend(total_questions, c) ==
    LET specific_questions == LoadQuestions(specific_db)
        general_questions == LoadQuestions(general_db)
        shuffled_specific == Shuffle(specific_questions, c[1])
        shuffled_general == Shuffle(general_questions, c[2])
        from_specific == Take(shuffled_specific, NumSpecific(total_questions))
        num_general == total_questions - Len(from_specific)
        available_questions == IF general_questions # <<>> /\ num_general > 0
                               THEN from_specific \o Take(shuffled_general, num_general)
                               ELSE from_specific
    IN  IF Len(available_questions) < total_questions
        THEN Take(available_questions
                    \o Shuffle(shuffled_specific \o shuffled_general, c[3]),
                  total_questions)
        ELSE available_questions

\* The selection before the final shuffle; c[1..3] are the outcomes of the
\* shuffles of the specific pool, the general pool and the concatenation.
SelectQuestions(total_questions, c) ==
    LET specific_questions == LoadQuestions(specific_db)
        general_questions == LoadQuestions(general_db)
        shuffled_specific == IF specific_questions # <<>>
                             THEN Shuffle(specific_questions, c[1])
                             ELSE specific_questions
        num_specific == NumSpecific(total_questions)
        from_specific == IF specific_questions # <<>>
                         THEN Take(shuffled_specific, num_specific)
                         ELSE <<>>
        shuffled_general == IF general_questions # <<>>
                            THEN Shuffle(general_questions, c[2])
                            ELSE general_questions
        num_general == total_questions - Len(from_specific)
        available_questions == IF general_questions # <<>> /\ num_general > 0
                               THEN from_specific \o Take(shuffled_general, num_general)
                               ELSE from_specific
        all_questions == shuffled_specific \o shuffled_general
    IN  IF Len(available_questions) < total_questions
        THEN Take(Shuffle(all_questions, c[3]), total_questions)
        ELSE available_questions

PrepareQuestions(total_questions, c) ==
    IF LoadQuestions(specific_db) = <<>> /\ LoadQuestions(general_db) = <<>>
    THEN <<>>
    ELSE Shuffle(SelectQuestions(total_questions, c), c[4])

\* Every sequence prepare_questions can return, over the outcomes of its four
\* shuffles.
PrepareOutcomes(total_questions) ==
    {PrepareQuestions(total_questions, c) : c \in [1..4 -> ShuffleChoices]}

PrepareErrors ==
    LoadErrors(specific_db) \cup LoadErrors(general_db) \cup
    (IF LoadQuestions(specific_db) = <<>> /\ LoadQuestions(general_db) = <<>>
     THEN {"Nenhuma questao encontrada"} ELSE {})

----------------------------------------------------------------------------
\* Python floats, as far as evaluate_performance uses them. A positive float
\* is a significand of MantissaBits bits times 2^(exp - MantissaBits + 1),
\* the significand held as three limbs hi, mid, lo of TopBits, LimbBits and
\* LimbBits bits, hi carrying the leading 1; zero has every limb 0. Every
\* operation rounds its exact result to the nearest float, ties to the even
\* significand.

Base == 2 ^ LimbBits

TopBits == MantissaBits - 2 * LimbBits

FloatZero == [hi |-> 0, mid |-> 0, lo |-> 0, exp |-> 0]

\* n / d scaled by powers of two until d <= n < 2 d; exp counts the scaling.
RECURSIVE Normalize(_, _, _)
Normalize(n, d, e) ==
    IF n < d THEN Normalize(2 * n, d, e - 1)
    ELSE IF n >= 2 * d THEN Normalize(n, 2 * d, e + 1)
    ELSE [n |-> n, d |-> d, exp |-> e]

\* The float of a significand cut to MantissaBits bits, rounded up or not;
\* a carry out of the top limb moves the exponent.
RoundFloat(hi, mid, lo, exp, up) ==
    IF ~up THEN [hi |-> hi, mid |-> mid, lo |-> lo, exp |-> exp]
    ELSE IF lo + 1 < Base
    THEN [hi |-> hi, mid |-> mid, lo |-> lo + 1, exp |-> exp]
    ELSE IF mid + 1 < Base
    THEN [hi |-> hi, mid |-> mid + 1, lo |-> 0, exp |-> exp]
    ELSE IF hi + 1 < 2 ^ TopBits
    THEN [hi |-> hi + 1, mid |-> 0, lo |-> 0, exp |-> exp]
    ELSE [hi |-> 2 ^ (TopBits - 1), mid |-> 0, lo |-> 0, exp |-> exp + 1]

\* c / t of two ints, c >= 0 and t > 0: Python's true division, by long
\* division limb by limb.
FloatDiv(c, t) ==
    IF c = 0 THEN FloatZero
    ELSE LET nz == Normalize(c, t, 0)
             top == (nz.n - nz.d) * 2 ^ (TopBits - 1)
             middle == (top % nz.d) * Base
             low == (middle % nz.d) * Base
             rem == low % nz.d
             up == \/ 2 * rem > nz.d
                   \/ 2 * rem = nz.d /\ (low \div nz.d) % 2 = 1
         IN  RoundFloat(2 ^ (TopBits - 1) + top \div nz.d, middle \div nz.d,
                        low \div nz.d, nz.exp, up)

\* x * m for a float x and an int 0 < m < 2 ^ 13, so that a limb times m
\* stays within 32 bits: the limbs are multiplied from the low end, then the
\* product is cut back to MantissaBits bits.
FloatTimes(x, m) ==
    IF x.hi = 0 THEN FloatZero
    ELSE LET pl == x.lo * m
             pm == x.mid * m + pl \div Base
             ph == x.hi * m + pm \div Base
             shift == CHOOSE s \in 0..LimbBits :
                          /\ 2 ^ (TopBits - 1) <= ph \div 2 ^ s
                          /\ ph \div 2 ^ s < 2 ^ TopBits
             cut == 2 ^ shift
             dropped == (pl % Base) % cut
             lo == (pl % Base) \div cut + ((pm % Base) % cut) * (Base \div cut)
             mid == (pm % Base) \div cut + (ph % cut) * (Base \div cut)
             up == \/ 2 * dropped > cut
                   \/ 2 * dropped = cut /\ lo % 2 = 1
         IN  RoundFloat(ph \div cut, mid, lo, x.exp + shift, up)

\* int(x) for a float 0 <= x < 2 ^ TopBits.
FloatFloor(x) ==
    IF x.hi = 0 \/ x.exp < 0 THEN 0
    ELSE x.hi \div 2 ^ (TopBits - 1 - x.exp)

\* x >= k for a float x >= 0 and an int k.
FloatGE(x, k) == FloatFloor(x) >= k

----------------------------------------------------------------------------
\* PerformanceEvaluator.evaluate_performance.

\* Mutant of evaluate_performance: a tier starts above its threshold.
evaluate_performance_strict(correct, total_questions) ==
    IF total_questions = 0
    THEN [percentage |-> FloatZero, level |-> "needs_improvement",
          message |-> "Nenhuma questao respondida"]
    ELSE LET percentage == FloatTimes(FloatDiv(correct, total_questions), 100)
         IN  IF FloatFloor(percentage) > EXCELLENT_THRESHOLD
             THEN [percentage |-> percentage, level |-> "excellent",
                   message |-> "Parabens! Excelente desempenho!"]
             ELSE IF FloatFloor(percentage) > GOOD_THRESHOLD
             THEN [percentage |-> percentage, level |-> "good",
                   message |-> "Bom trabalho! Continue estudando!"]
             ELSE [percentage |-> percentage, level |-> "needs_improvement",
                   message |-> "Continue estudando para melhorar!"]

evaluate_performance(correct, total_questions) ==
    IF total_questions = 0
    THEN [percentage |-> FloatZero, level |-> "needs_improvement",
          message |-> "Nenhuma questao respondida"]
    ELSE LET percentage == FloatTimes(FloatDiv(correct, total_questions), 100)
         IN  IF FloatGE(percentage, EXCELLENT_THRESHOLD)
             THEN [percentage |-> percentage, level |-> "excellent",
                   message |-> "Parabens! Excelente desempenho!"]
             ELSE IF FloatGE(percentage, GOOD_THRESHOLD)
             THEN [percentage |-> percentage, level |-> "good",
                   message |-> "Bom trabalho! Continue estudando!"]
             ELSE [percentage |-> percentage, level |-> "needs_improvement",
                   message |-> "Continue estudando para melhorar!"]

----------------------------------------------------------------------------
\* Session.

\* The screen main() dispatches to.
Phase ==
    IF ~quiz_started THEN "NotStarted"
    ELSE IF quiz_finished THEN "Finished"
    ELSE IF question_answered THEN "Answered"
    ELSE "Unanswered"

\* initialize_session_state on a new session.
InitSession ==
    /\ quiz_started = FALSE
    /\ questions = <<>>
    /\ current_question = 0
    /\ correct_answers = 0
    /\ user_answers = <<>>
    /\ quiz_finished = FALSE
    /\ question_answered = FALSE
    /\ last_user_answer = None
    /\ last_answer_correct = None

InitRun ==
    /\ st_errors = {}
    /\ exception = None
    /\ results = None
    /\ op = [name |-> "init", arg |-> None, phase |-> "NotStarted"]

Init ==
    /\ \E ns \in 0..MaxPool, ng \in 0..MaxPool, disjoint \in BOOLEAN :
          /\ ns + ng <= MaxPool
          /\ specific_db \in Datasets("specific", 1, ns)
          /\ general_db \in Datasets("general", IF disjoint THEN ns + 1 ELSE 1, ng)
    /\ InitSession
    /\ InitRun

\* Mutant of reset_quiz: the answer log and the score survive the reset.
reset_quiz_keeps_log ==
    /\ quiz_started' = FALSE
    /\ questions' = <<>>
    /\ current_question' = 0
    /\ quiz_finished' = FALSE
    /\ question_answered' = FALSE
    /\ last_user_answer' = None
    /\ last_answer_correct' = None
    /\ UNCHANGED <<correct_answers, user_answers>>

reset_quiz ==
    /\ quiz_started' = FALSE
    /\ questions' = <<>>
    /\ current_question' = 0
    /\ correct_answers' = 0
    /\ user_answers' = <<>>
    /\ quiz_finished' = FALSE
    /\ question_answered' = FALSE
    /\ last_user_answer' = None
    /\ last_answer_correct' = None

ResetQuiz ==
    /\ reset_quiz
    /\ st_errors' = {}
    /\ exception' = None
    /\ results' = None
    /\ op' = [name |-> "reset", arg |-> None, phase |-> Phase]
    /\ UNCHANGED dbs

\* Mutant of start_quiz: an empty selection starts the quiz all the same.
start_quiz_unchecked(total_questions, prepared) ==
    /\ st_errors' = PrepareErrors
    /\ questions' = prepared
    /\ quiz_started' = TRUE
    /\ current_question' = 0
    /\ correct_answers' = 0
    /\ user_answers' = <<>>
    /\ quiz_finished' = FALSE
    /\ question_answered' = FALSE
    /\ last_user_answer' = None
    /\ last_answer_correct' = None

start_quiz(total_questions, prepared) ==
    IF prepared = <<>>
    THEN /\ st_errors' = PrepareErrors \cup {"Nao foi possivel carregar as questoes"}
         /\ UNCHANGED session
    ELSE /\ st_errors' = PrepareErrors
         /\ questions' = prepared
         /\ quiz_started' = TRUE
         /\ current_question' = 0
         /\ correct_answers' = 0
         /\ user_answers' = <<>>
         /\ quiz_finished' = FALSE
         /\ question_answered' = FALSE
         /\ last_user_answer' = None
         /\ last_answer_correct' = None

\* The button of show_initial_screen, the screen main() shows while the quiz is
\* not started. start_quiz assigns every session field or none, so what it
\* leaves behind does not depend on the state it is called in.
StartQuiz ==
    /\ ~quiz_started
    /\ \E total_questions \in QuizSizes :
          \E prepared \in PrepareOutcomes(total_questions) :
              /\ start_quiz(total_questions, prepared)
              /\ exception' = None
              /\ results' = None
              /\ op' = [name |-> "start", arg |-> total_questions, phase |-> Phase]
              /\ UNCHANGED dbs

\* Mutant of answer_question: the guard misses question_answered.
answer_question_unguarded(selected_answer) ==
    IF quiz_finished
    THEN /\ exception' = None
         /\ UNCHANGED session
    ELSE IF current_question >= Len(questions)
    THEN /\ exception' = "IndexError"
         /\ UNCHANGED session
    ELSE LET current_q == questions[current_question + 1]
             is_correct == (selected_answer = current_q.gabarito)
         IN  /\ exception' = None
             /\ correct_answers' = IF is_correct THEN correct_answers + 1
                                   ELSE correct_answers
             /\ user_answers' = Append(user_answers,
                                       [question |-> current_q,
                                        user_answer |-> selected_answer,
                                        correct_answer |-> current_q.gabarito,
                                        is_correct |-> is_correct])
             /\ question_answered' = TRUE
             /\ last_user_answer' = selected_answer
             /\ last_answer_correct' = is_correct
             /\ UNCHANGED <<quiz_started, questions, current_question, quiz_finished>>

\* Mutant of answer_question: every answer is counted as correct.
answer_question_counts_all(selected_answer) ==
    IF quiz_finished \/ question_answered
    THEN /\ exception' = None
         /\ UNCHANGED session
    ELSE IF current_question >= Len(questions)
    THEN /\ exception' = "IndexError"
         /\ UNCHANGED session
    ELSE LET current_q == questions[current_question + 1]
             is_correct == (selected_answer = current_q.gabarito)
         IN  /\ exception' = None
             /\ correct_answers' = correct_answers + 1
             /\ user_answers' = Append(user_answers,
                                       [question |-> current_q,
                                        user_answer |-> selected_answer,
                                        correct_answer |-> current_q.gabarito,
                                        is_correct |-> is_correct])
             /\ question_answered' = TRUE
             /\ last_user_answer' = selected_answer
             /\ last_answer_correct' = is_correct
             /\ UNCHANGED <<quiz_started, questions, current_question, quiz_finished>>

answer_question(selected_answer) ==
    IF quiz_finished \/ question_answered
    THEN /\ exception' = None
         /\ UNCHANGED session
    ELSE IF current_question >= Len(questions)
    THEN \* st.session_state.questions[...] raises before anything is assigned
         /\ exception' = "IndexError"
         /\ UNCHANGED session
    ELSE LET current_q == questions[current_question + 1]
             is_correct == (selected_answer = current_q.gabarito)
         IN  /\ exception' = None
             /\ correct_answers' = IF is_correct THEN correct_answers + 1
                                   ELSE correct_answers
             /\ user_answers' = Append(user_answers,
                                       [question |-> current_q,
                                        user_answer |-> selected_answer,
                                        correct_answer |-> current_q.gabarito,
                                        is_correct |-> is_correct])
             /\ question_answered' = TRUE
             /\ last_user_answer' = selected_answer
             /\ last_answer_correct' = is_correct
             /\ UNCHANGED <<quiz_started, questions, current_question, quiz_finished>>

AnswerQuestion ==
    \E selected_answer \in Letters :
        /\ answer_question(selected_answer)
        /\ st_errors' = {}
        /\ results' = None
        /\ op' = [name |-> "answer", arg |-> selected_answer, phase |-> Phase]
        /\ UNCHANGED dbs

\* Mutant of next_question: the end test is > instead of >=.
next_question_late_finish ==
    /\ current_question' = current_question + 1
    /\ question_answered' = FALSE
    /\ last_user_answer' = None
    /\ last_answer_correct' = None
    /\ quiz_finished' = IF current_question + 1 > Len(questions) THEN TRUE
                        ELSE quiz_finished
    /\ UNCHANGED <<quiz_started, questions, correct_answers, user_answers>>

next_question ==
    /\ current_question' = current_question + 1
    /\ question_answered' = FALSE
    /\ last_user_answer' = None
    /\ last_answer_correct' = None
    /\ quiz_finished' = IF current_question + 1 >= Len(questions) THEN TRUE
                        ELSE quiz_finished
    /\ UNCHANGED <<quiz_started, questions, correct_answers, user_answers>>

NextQuestion ==
    /\ current_question < MaxPosition
    /\ next_question
    /\ st_errors' = {}
    /\ exception' = None
    /\ results' = None
    /\ op' = [name |-> "next", arg |-> None, phase |-> Phase]
    /\ UNCHANGED dbs

\* The selector alone: datasets large enough for prepare_questions to fill a
\* quiz without its fallback, and the start button as the only operation.
SelPoolSizes == (0..SelMaxPool) \cup {2 * k : k \in 0..SelMaxPool}

SelInit ==
    /\ \E ns \in SelPoolSizes, ng \in SelPoolSizes, disjoint \in BOOLEAN :
          /\ specific_db \in Datasets("specific", 1, ns)
          /\ general_db \in Datasets("general", IF disjoint THEN ns + 1 ELSE 1, ng)
    /\ InitSession
    /\ InitRun

SelNext == StartQuiz

SelSpec == SelInit /\ [][SelNext]_vars

\* show_final_results, the screen main() shows once the quiz is finished:
\* the score, the evaluation of (correct_answers, len(questions)) and one
\* review entry per record of user_answers, in order.
show_final_results ==
    LET total_questions == Len(questions)
        evaluation == evaluate_performance(correct_answers, total_questions)
    IN  [score |-> <<correct_answers, total_questions>>,
         percentage |-> evaluation.percentage,
         level |-> evaluation.level,
         message |-> evaluation.message,
         review |-> [i \in 1..Len(user_answers) |->
                        [number |-> i,
                         question |-> user_answers[i].question,
                         user_answer |-> user_answers[i].user_answer,
                         correct_answer |-> user_answers[i].correct_answer,
                         is_correct |-> user_answers[i].is_correct]]]

ShowFinalResults ==
    /\ Phase = "Finished"
    /\ results' = show_final_results
    /\ st_errors' = {}
    /\ exception' = None
    /\ op' = [name |-> "results", arg |-> None, phase |-> Phase]
    /\ UNCHANGED <<dbs, session>>

\* evaluate_performance on its own: the initial states draw every
\* 0 <= C <= T <= MaxTotal, and the one operation applies the function.
EvaluatePerformance ==
    /\ op.name = "input"
    /\ results' = evaluate_performance(op.arg[1], op.arg[2])
    /\ op' = [name |-> "evaluate", arg |-> op.arg, phase |-> Phase]
    /\ st_errors' = {}
    /\ exception' = None
    /\ UNCHANGED <<dbs, session>>

EvalInit ==
    /\ specific_db = [exists |-> FALSE, rows |-> <<>>]
    /\ general_db = [exists |-> FALSE, rows |-> <<>>]
    /\ InitSession
    /\ st_errors = {}
    /\ exception = None
    /\ results = None
    /\ \E t \in 0..MaxTotal :
          \E c \in 0..t :
              op = [name |-> "input", arg |-> <<c, t>>, phase |-> "NotStarted"]

EvalNext == EvaluatePerformance

EvalSpec == EvalInit /\ [][EvalNext]_vars

Next ==
    \/ StartQuiz
    \/ AnswerQuestion
    \/ NextQuestion
    \/ ResetQuiz
    \/ ShowFinalResults

Spec == Init /\ [][Next]_vars

\* The session as the screens drive it: main() shows one screen per phase, and
\* each screen offers only its own buttons. The datasets hold up to UIMaxPool
\* rows together.
UIInit ==
    /\ \E ns \in 0..UIMaxPool, ng \in 0..UIMaxPool :
          /\ ns + ng <= UIMaxPool
          /\ specific_db \in Datasets("specific", 1, ns)
          /\ general_db \in Datasets("general", ns + 1, ng)
    /\ InitSession
    /\ InitRun

\* An answer button of show_question_screen, shown while the question is
\* unanswered.
UISubmit == Phase = "Unanswered" /\ AnswerQuestion

\* The next button of show_question_screen, shown once the question is
\* answered.
UIAdvance == Phase = "Answered" /\ NextQuestion

\* The restart button of show_final_results.
UIRestart == Phase = "Finished" /\ ResetQuiz

UINext ==
    \/ StartQuiz
    \/ UISubmit
    \/ UIAdvance
    \/ UIRestart
    \/ ShowFinalResults

UISpec == UIInit /\ [][UINext]_vars

----------------------------------------------------------------------------
\* Claims.

SpecificPool == LoadQuestions(specific_db)

GeneralPool == LoadQuestions(general_db)

TotalAvailable == Len(SpecificPool) + Len(GeneralPool)

\* The number of questions of a sequence that come from one dataset.
FromBanco(qs, banco) == Cardinality({i \in 1..Len(qs) : qs[i].banco = banco})

\* A start that found questions: prepare_questions returned st.session_state.questions.
Started == op.name = "start" /\ quiz_started

\* C1: for every N of the selectbox and pools that are not both empty,
\* prepare_questions(N) returns exactly min(N, |specific| + |general|)
\* questions, whatever the shuffles give.
C1_ExactCount ==
    (op.name = "start" /\ TotalAvailable > 0) =>
        /\ quiz_started
        /\ Len(questions) = Min(op.arg, TotalAvailable)

\* C1 witness: a quiz cut to N from pools holding more than N, through the
\* fallback (the general pool alone could not fill the rest).
C1_Witness ==
    /\ Started
    /\ TotalAvailable > op.arg
    /\ Len(GeneralPool) < op.arg - NumSpecific(op.arg)
    /\ Len(questions) = op.arg

\* C2 as stated: no two questions of the returned sequence have the same id.
C2_UniqueIds ==
    Started =>
        \A i, j \in 1..Len(questions) :
            i # j => questions[i].id # questions[j].id

\* C2 amended: no row is returned twice, on every path including the
\* fallback: two returned questions with the same id come from different
\* datasets.
C2_NoRowTwice ==
    Started =>
        \A i, j \in 1..Len(questions) :
            (i # j /\ questions[i].id = questions[j].id)
                => questions[i].banco # questions[j].banco

\* C2 witness: the fallback returned both pools whole, rows with equal ids
\* among them.
C2_Witness ==
    /\ Started
    /\ Len(questions) < op.arg
    /\ FromBanco(questions, "specific") > 1
    /\ \E i, j \in 1..Len(questions) :
          i # j /\ questions[i].id = questions[j].id

\* C3 as stated: next_question outside InProgress-answered changes nothing
\* of position, flags, correct-count and answer log.
C3_AdvanceIgnored ==
    [][(op'.name = "next" /\ Phase # "Answered") =>
           UNCHANGED <<current_question, question_answered, quiz_finished,
                       correct_answers, user_answers>>]_vars

\* C4: answer_question while the current question is already answered is a
\* no-op, whatever the letters: the log keeps the record of the first call
\* alone and correct-count does not move again.
C4_SecondSubmitIgnored ==
    [][(op'.name = "answer" /\ question_answered) =>
           /\ UNCHANGED session
           /\ exception' = None
           /\ user_answers # <<>>
           /\ user_answers[Len(user_answers)].user_answer = last_user_answer]_vars

\* C4 witness: a second submit, with another letter than the first, has run.
C4_Witness ==
    /\ op.name = "answer"
    /\ op.phase = "Answered"
    /\ question_answered
    /\ op.arg # last_user_answer
    /\ Len(user_answers) = current_question + 1

\* C5 as stated: answer_question in NotStarted or in Finished raises nothing
\* and changes nothing.
C5_SubmitIgnored ==
    [][(op'.name = "answer" /\ Phase \in {"NotStarted", "Finished"}) =>
           /\ exception' = None
           /\ UNCHANGED session]_vars

\* C6: in InProgress-unanswered, answer_question appends exactly the record
\* (current question, letter, key, letter = key), adds 1 to correct-count iff
\* the letter is the key, sets the answered flag and leaves position and
\* question sequence alone.
C6_SubmitRecords ==
    [][(op'.name = "answer" /\ Phase = "Unanswered") =>
           /\ current_question < Len(questions)
           /\ LET q == questions[current_question + 1]
                  letter == op'.arg
              IN  /\ user_answers' = user_answers \o
                         <<[question |-> q, user_answer |-> letter,
                            correct_answer |-> q.gabarito,
                            is_correct |-> (letter = q.gabarito)]>>
                  /\ correct_answers' = correct_answers +
                         (IF letter = q.gabarito THEN 1 ELSE 0)
           /\ question_answered'
           /\ ~quiz_finished'
           /\ UNCHANGED <<current_question, questions, quiz_started>>]_vars

\* C6 witness: a wrong answer on the second question, after a right one on
\* the first.
C6_Witness ==
    /\ op.name = "answer"
    /\ op.phase = "Unanswered"
    /\ current_question = 1
    /\ Len(user_answers) = 2
    /\ correct_answers = 1
    /\ last_answer_correct = FALSE

\* C7: from InProgress-answered at position p of T questions, next_question
\* goes to InProgress-unanswered at p + 1 when p + 1 < T and to Finished
\* exactly when p + 1 = T; correct-count and answer log stay.
C7_Advance ==
    [][(op'.name = "next" /\ Phase = "Answered") =>
           /\ current_question' = current_question + 1
           /\ (current_question + 1 < Len(questions)) => Phase' = "Unanswered"
           /\ (Phase' = "Finished") <=> (current_question + 1 = Len(questions))
           /\ UNCHANGED <<correct_answers, user_answers, questions>>]_vars

\* C7 witness: the advance from the last question, every question answered.
C7_Witness ==
    /\ op.name = "next"
    /\ op.phase = "Answered"
    /\ Phase = "Finished"
    /\ current_question = Len(questions)
    /\ Len(user_answers) = Len(questions)
    /\ Len(questions) > 1

\* C8: with both pools empty prepare_questions returns the empty sequence,
\* and start_quiz signals an error and leaves every session field as it was,
\* the session NotStarted.
C8_EmptyPools ==
    [][(op'.name = "start" /\ TotalAvailable = 0) =>
           /\ \A n \in QuizSizes : PrepareOutcomes(n) = {<<>>}
           /\ "Nao foi possivel carregar as questoes" \in st_errors'
           /\ exception' = None
           /\ ~quiz_started'
           /\ UNCHANGED session]_vars

\* C8 witness: a start on empty pools, after a stray advance moved the position.
C8_Witness ==
    /\ op.name = "start"
    /\ TotalAvailable = 0
    /\ st_errors # {}
    /\ ~quiz_started
    /\ current_question > 0

\* C9: reset_quiz from Finished leaves the session as a new session has it:
\* NotStarted, no questions, position 0, empty log, correct-count 0, flags
\* cleared.
C9_RestartClears ==
    (op.name = "reset" /\ op.phase = "Finished") => InitSession

\* C9 witness: a restart from Finished has run.
C9_Witness ==
    /\ op.name = "reset"
    /\ op.phase = "Finished"
    /\ exception = None

\* C10: when the specific pool has at least N x 0.6 rows and the general
\* pool at least N x 0.4, the returned sequence has at least floor(N x 0.6)
\* questions from the specific pool.
C10_RatioLowerBound ==
    (/\ Started
     /\ 10 * Len(SpecificPool) >= 6 * op.arg
     /\ 10 * Len(GeneralPool) >= 4 * op.arg)
        => FromBanco(questions, "specific") >= (6 * op.arg) \div 10

\* C10 witness: a quiz of 20 from pools of at least 12 and 8 rows.
C10_Witness ==
    /\ Started
    /\ op.arg = 20
    /\ 10 * Len(SpecificPool) >= 6 * op.arg
    /\ 10 * Len(GeneralPool) >= 4 * op.arg
    /\ FromBanco(questions, "specific") = 12
    /\ Len(questions) = 20

\* C11: if the specific pool is empty and the general pool is not, every
\* returned question comes from the general pool, and the other way round;
\* the quiz then has min(N, size of the pool that has rows) questions.
C11_SinglePool ==
    Started =>
        /\ SpecificPool = <<>> =>
              /\ FromBanco(questions, "general") = Len(questions)
              /\ Len(questions) = Min(op.arg, Len(GeneralPool))
        /\ GeneralPool = <<>> =>
              /\ FromBanco(questions, "specific") = Len(questions)
              /\ Len(questions) = Min(op.arg, Len(SpecificPool))

\* C11 witness: a quiz of N drawn, through the fallback, from a specific pool
\* of more than N rows while the general dataset gives none.
C11_Witness ==
    /\ Started
    /\ GeneralPool = <<>>
    /\ Len(SpecificPool) > op.arg
    /\ Len(questions) = op.arg
    /\ FromBanco(questions, "specific") = op.arg

\* C12: for 0 <= C <= T, evaluate_performance(C, T) is excellent iff T > 0
\* and 100 C >= 70 T, good iff T > 0 and 50 T <= 100 C < 70 T, and
\* needs_improvement otherwise; for T = 0 it returns percentage 0 with the
\* message of no question answered, and no division fault.
C12_Tiers ==
    op.name = "evaluate" =>
        LET c == op.arg[1]
            t == op.arg[2]
        IN  /\ exception = None
            /\ results.level \in {"excellent", "good", "needs_improvement"}
            /\ results.level = "excellent" <=> (t > 0 /\ 100 * c >= 70 * t)
            /\ results.level = "good" <=>
                  (t > 0 /\ 50 * t <= 100 * c /\ 100 * c < 70 * t)
            /\ t = 0 => results.percentage = FloatZero
            /\ results.message = "Nenhuma questao respondida" <=> t = 0

\* C12 witness: evaluate_performance(7, 10) came out excellent, at 70.0.
C12_Witness ==
    /\ op.name = "evaluate"
    /\ op.arg = <<7, 10>>
    /\ results.level = "excellent"
    /\ FloatFloor(results.percentage) = 70

\* The records of the answer log whose answer is the key of the question at
\* the same position.
Matching ==
    {i \in 1..Min(Len(user_answers), Len(questions)) :
        user_answers[i].user_answer = questions[i].gabarito}

\* C13: driven through the screens (start, then submit and advance for each
\* question in turn), a quiz whose position has reached its length T is
\* finished; a finished quiz has T answer records, record i holding question
\* i, the answer given, the key and whether they agree; correct_answers counts
\* the agreeing records; and the results screen reviews the T records in order
\* and shows the tier evaluate_performance gives for (correct_answers, T).
C13_EndToEnd ==
    /\ (quiz_started /\ current_question >= Len(questions)) => quiz_finished
    /\ Phase = "Finished" =>
          /\ current_question = Len(questions)
          /\ Len(user_answers) = Len(questions)
          /\ correct_answers = Cardinality(Matching)
          /\ \A i \in 1..Len(user_answers) :
                /\ user_answers[i].question = questions[i]
                /\ user_answers[i].user_answer \in Letters
                /\ user_answers[i].correct_answer = questions[i].gabarito
                /\ user_answers[i].is_correct <=> i \in Matching
          /\ op.name = "results" =>
                /\ results.score = <<Cardinality(Matching), Len(questions)>>
                /\ results.level =
                       evaluate_performance(Cardinality(Matching), Len(questions)).level
                /\ results.level = "excellent" <=>
                       100 * Cardinality(Matching) >= 70 * Len(questions)
                /\ results.level = "good" <=>
                       /\ 50 * Len(questions) <= 100 * Cardinality(Matching)
                       /\ 100 * Cardinality(Matching) < 70 * Len(questions)
                /\ Len(results.review) = Len(questions)
                /\ \A i \in 1..Len(results.review) :
                      /\ results.review[i].number = i
                      /\ results.review[i].question = questions[i]
                      /\ results.review[i].user_answer = user_answers[i].user_answer
                      /\ results.review[i].correct_answer = questions[i].gabarito
                      /\ results.review[i].is_correct <=> i \in Matching

\* Keys a, b, c answered a, b, d: two correct, tier good, entry 3 wrong with
\* correct answer c.
C13_Witness ==
    /\ op.name = "results"
    /\ [i \in 1..Len(questions) |-> questions[i].gabarito] = <<"a", "b", "c">>
    /\ [i \in 1..Len(user_answers) |-> user_answers[i].user_answer] = <<"a", "b", "d">>
    /\ correct_answers = 2
    /\ results.score = <<2, 3>>
    /\ results.level = "good"
    /\ FloatFloor(results.percentage) = 66
    /\ ~results.review[3].is_correct
    /\ results.review[3].user_answer = "d"
    /\ results.review[3].correct_answer = "c"

\* C14 as stated: within an attempt no submit or advance changes the question
\* sequence or lowers the position, and once the quiz is finished no submit or
\* advance changes any session field.
C14_AttemptFrozen ==
    [][(op'.name \in {"answer", "next"} /\ quiz_started) =>
          /\ questions' = questions
          /\ current_question' >= current_question
          /\ Phase = "Finished" => UNCHANGED session]_vars

\* C15: through the operations the screens enable, a started and unfinished
\* quiz has 0 <= current_question < len(questions), and no operation indexes
\* questions out of range.
C15_PositionInRange ==
    /\ (quiz_started /\ ~quiz_finished) =>
          (0 <= current_question /\ current_question < Len(questions))
    /\ exception # "IndexError"

\* The last of several questions has been indexed by an answer.
C15_Witness ==
    /\ op.name = "answer"
    /\ Phase = "Answered"
    /\ current_question > 0
    /\ current_question = Len(questions) - 1
    /\ user_answers[Len(user_answers)].question = questions[current_question + 1]

\* C16: through the operations the screens enable, correct_answers is the
\* number of records of user_answers marked correct, user_answers has one
\* record per question passed plus one when the current question is answered,
\* correct_answers <= len(user_answers) <= len(questions), and a finished quiz
\* has one record per question, so the total the results screen evaluates is
\* the number of answers given.
C16_Counts ==
    /\ correct_answers =
           Cardinality({i \in 1..Len(user_answers) : user_answers[i].is_correct})
    /\ Len(user_answers) = current_question + (IF question_answered THEN 1 ELSE 0)
    /\ correct_answers <= Len(user_answers)
    /\ Len(user_answers) <= Len(questions)
    /\ Phase = "Finished" => Len(user_answers) = Len(questions)
    /\ op.name = "results" => results.score[2] = Len(user_answers)

\* A finished quiz of three answers, one of them correct, on the results
\* screen.
C16_Witness ==
    /\ op.name = "results"
    /\ Len(user_answers) = 3
    /\ correct_answers = 1
    /\ Cardinality({i \in 1..Len(user_answers) : user_answers[i].is_correct}) = 1
    /\ results.score = <<1, 3>>

\* The screen-driven session with a user who keeps pressing the answer and
\* next buttons while they are shown.
FairSpec == UISpec /\ WF_vars(UISubmit) /\ WF_vars(UIAdvance)

\* C17: a started quiz of T questions is eventually finished when the user
\* keeps submitting and advancing; a start leaves no answer and position 0,
\* every submit adds one record and every advance one position, and a
\* finished quiz has T records at position T, so it finishes after exactly T
\* submits and T advances and never with fewer than T answers.
C17_Terminates ==
    /\ (quiz_started /\ ~quiz_finished) ~> quiz_finished
    /\ [](quiz_finished =>
             /\ Len(user_answers) = Len(questions)
             /\ current_question = Len(questions)
             /\ Len(questions) >= 1)
    /\ [][(op'.name = "start" /\ quiz_started') =>
             (user_answers' = <<>> /\ current_question' = 0)]_vars
    /\ [][op'.name = "answer" =>
             /\ Len(user_answers') = Len(user_answers) + 1
             /\ current_question' = current_question]_vars
    /\ [][op'.name = "next" =>
             /\ current_question' = current_question + 1
             /\ user_answers' = user_answers]_vars

\* The last advance of a quiz of three questions has finished it.
C17_Witness ==
    /\ op.name = "next"
    /\ op.phase = "Answered"
    /\ quiz_finished
    /\ Len(questions) = 3
    /\ Len(user_answers) = 3
    /\ current_question = 3

====
